---- MODULE Spec2Model ----
(***************************************************************************)
(* A model of idiota (src/idiota/base.py, src/idiota/data.py): the object  *)
(* store, the reference store, the index, and the repository operations    *)
(* init, add, write_tree, read_tree, commit, checkout, reset, merge,        *)
(* create_tag and create_branch.                                           *)
(*                                                                         *)
(* Object ids.  data.hash_object names an object by the SHA-1 of its bytes.*)
(* The model keeps the store as the sequence of the distinct objects       *)
(* written so far and names an object by its position in it: equal bytes   *)
(* give the same id, different bytes give different ids (no collisions).   *)
(* None (Python's None, an absent value) is 0.                             *)
(*                                                                         *)
(* Text formats.  A ref file holds "ref: <name>" or "<oid>", a tree object *)
(* one line "<type> <oid> <name>" per entry, a commit object the lines     *)
(* "tree <oid>", "parent <oid>"..., an empty line and the message.  A line *)
(* is modelled by the tuple of its fields, a text by the sequence of its   *)
(* lines, a path or ref name by the sequence of its "/"-separated segments.*)
(* A Python dict is the sequence of its (key, value) items in insertion    *)
(* order.                                                                  *)
(*                                                                         *)
(* Failures.  An operation that raises keeps what it wrote before the      *)
(* exception; the index is written back only when the body of              *)
(* "with data.get_index()" ends normally.                                  *)
(*                                                                         *)
(* History.  last records the last operation, merge_from the commit HEAD   *)
(* led to when the merge that wrote the present MERGE_HEAD was invoked.     *)
(*                                                                         *)
(* Spec runs the operations of base.py on an initialised repository;       *)
(* SpecRefs runs data.update_ref and data.delete_ref on the ref store.     *)
(***************************************************************************)
EXTENDS Integers, Sequences, FiniteSets, TLC

None == 0

(* ------------------------------ bounds -------------------------------- *)
\* the number of operations performed on the repository
MaxOps == 5

\* the number of operations performed on the index and the object store
\* on their own
MaxIndexOps == 2

\* the number of merges of trees performed on their own
MaxMergeOps == 1

\* more object ids than MaxOps operations can create (an operation creates
\* at most a blob per path, a tree per directory and a commit)
MaxOid == 5 * MaxOps + 1

VARIABLES
  steps,     \* the number of operations performed
  objects,   \* .idiota/objects: the sequence of stored objects, id = position
  refs,      \* .idiota/HEAD, MERGE_HEAD, refs/...: ref name -> file text
  index,     \* .idiota/index: dict path -> blob id
  last,      \* the last operation: its name, arguments and outcome
  merge_from \* the commit HEAD led to when the merge that wrote the
             \* present MERGE_HEAD was invoked; None without MERGE_HEAD

vars == <<steps, objects, refs, index, last, merge_from>>

(* --------------------------- Python helpers --------------------------- *)
Range(s) == {s[i] : i \in DOMAIN s}

\* s[m-1:n] of a list
slice(s, m, n) ==
  IF n > Len(s) THEN SubSeq(s, m, Len(s)) ELSE SubSeq(s, m, n)

\* dict: a sequence of <<key, value>> items with distinct keys
dict_keys(d) == {d[i][1] : i \in DOMAIN d}
dict_has(d, k) == \E i \in DOMAIN d : d[i][1] = k
dict_pos(d, k) == CHOOSE i \in DOMAIN d : d[i][1] = k
dict_get(d, k) == d[dict_pos(d, k)][2]
\* d[k] = v: an existing key keeps its place, a new key goes last
dict_set(d, k, v) ==
  IF dict_has(d, k)
    THEN [d EXCEPT ![dict_pos(d, k)] = <<k, v>>]
    ELSE Append(d, <<k, v>>)

RECURSIVE dict_update(_, _)
\* d.update(e)
dict_update(d, e) ==
  IF e = <<>> THEN d
  ELSE dict_update(dict_set(d, e[1][1], e[1][2]), Tail(e))

\* d1 == d2 for dicts: the same items, in any order
dict_eq(d1, d2) == Range(d1) = Range(d2)

(* ------------------------- data.py: objects --------------------------- *)
Object(type_, data) == [type_ |-> type_, data |-> data]

\* two objects have the same bytes
same_bytes(o1, o2) == o1.type_ = o2.type_ /\ o1.data = o2.data

\* data.object_exists
object_exists(store, oid) == oid \in DOMAIN store

\* hashlib.sha1(obj).hexdigest(): the id of obj given the objects stored
sha1(store, obj) ==
  IF \E i \in DOMAIN store : same_bytes(store[i], obj)
    THEN CHOOSE i \in DOMAIN store : same_bytes(store[i], obj)
    ELSE Len(store) + 1

\* hash_object that opens the object file for appending
hash_object_append(store, data, type_) ==
  LET obj == Object(type_, data)
      oid == sha1(store, obj)
  IN [store |-> IF oid \in DOMAIN store
                  THEN [store EXCEPT ![oid] = Object(type_, @.data \o data)]
                  ELSE Append(store, obj),
      oid |-> oid]

\* data.hash_object: store type_ || 0x00 || data under its id
hash_object(store, data, type_) ==
  LET obj == Object(type_, data)
      oid == sha1(store, obj)
  IN [store |-> IF oid \in DOMAIN store
                  THEN [store EXCEPT ![oid] = obj]
                  ELSE Append(store, obj),
      oid |-> oid]

\* data.get_object: the content, or a failure (no such file, or the type
\* tag is not the expected one)
get_object(store, oid, expected) ==
  IF ~object_exists(store, oid) THEN [ok |-> FALSE, err |-> "NotFound"]
  ELSE IF store[oid].type_ # expected
    THEN [ok |-> FALSE, err |-> "CorruptObject"]
  ELSE [ok |-> TRUE, data |-> store[oid].data]

(* --------------------------- data.py: refs ---------------------------- *)
RefValue(symbolic, value) == [symbolic |-> symbolic, value |-> value]

\* bool(value.value): None and the empty string are false
truth(value) ==
  IF value.symbolic THEN value.value # <<>> ELSE value.value # None

HEAD == <<"HEAD">>
MERGE_HEAD == <<"MERGE_HEAD">>

\* the text update_ref writes for a value
ref_text(value) ==
  IF value.symbolic THEN [prefix |-> "ref:", rest |-> value.value]
  ELSE [prefix |-> "", rest |-> value.value]

\* _get_ref_internal that follows one symbolic ref and no further
get_ref_internal_one_level(rs, ref, deref, depth) ==
  LET isfile == ref \in DOMAIN rs
      symbolic == isfile /\ rs[ref].prefix = "ref:"
      value == IF isfile THEN rs[ref].rest ELSE None
      isfile2 == symbolic /\ value \in DOMAIN rs
      symbolic2 == isfile2 /\ rs[value].prefix = "ref:"
      value2 == IF isfile2 THEN rs[value].rest ELSE None
  IN IF symbolic /\ deref
       THEN [ok |-> TRUE, ref |-> value, value |-> RefValue(symbolic2, value2)]
       ELSE [ok |-> TRUE, ref |-> ref, value |-> RefValue(symbolic, value)]

RECURSIVE get_ref_internal(_, _, _, _)
\* data._get_ref_internal: <<ref, RefValue>> of the ref the name leads to.
\* depth counts the nested calls: a cycle of symbolic refs recurses until
\* Python raises RecursionError.
get_ref_internal(rs, ref, deref, depth) ==
  LET isfile == ref \in DOMAIN rs
      symbolic == isfile /\ rs[ref].prefix = "ref:"
      value == IF isfile THEN rs[ref].rest ELSE None
  IN IF symbolic /\ deref
       THEN IF depth > Cardinality(DOMAIN rs)
              THEN [ok |-> FALSE, err |-> "RecursionError"]
              ELSE get_ref_internal(rs, value, TRUE, depth + 1)
       ELSE [ok |-> TRUE, ref |-> ref, value |-> RefValue(symbolic, value)]

\* data.get_ref
get_ref(rs, ref, deref) == get_ref_internal(rs, ref, deref, 0).value

\* update_ref that writes the named ref itself, whatever deref says
update_ref_no_deref(rs, ref, value, deref) ==
  IF ~truth(value) THEN [ok |-> FALSE, err |-> "InvalidValue", refs |-> rs]
  ELSE [ok |-> TRUE,
        refs |-> [x \in DOMAIN rs \cup {ref} |->
                    IF x = ref THEN ref_text(value) ELSE rs[x]]]

\* data.update_ref: the ref store afterwards
update_ref(rs, ref, value, deref) ==
  LET r == get_ref_internal(rs, ref, deref, 0)
  IN IF ~r.ok THEN [ok |-> FALSE, err |-> r.err, refs |-> rs]
     ELSE IF ~truth(value)
       THEN [ok |-> FALSE, err |-> "InvalidValue", refs |-> rs]
     ELSE [ok |-> TRUE,
           refs |-> [x \in DOMAIN rs \cup {r.ref} |->
                       IF x = r.ref THEN ref_text(value) ELSE rs[x]]]

\* data.delete_ref
delete_ref(rs, ref, deref) ==
  LET r == get_ref_internal(rs, ref, deref, 0)
  IN IF ~r.ok THEN [ok |-> FALSE, err |-> r.err, refs |-> rs]
     ELSE IF r.ref \notin DOMAIN rs
       THEN [ok |-> FALSE, err |-> "NotFound", refs |-> rs]
     ELSE [ok |-> TRUE, refs |-> [x \in DOMAIN rs \ {r.ref} |-> rs[x]]]

(* ----------------------- base.py: the tree codec ---------------------- *)
\* the segment strings in lexicographic order, as Python compares them
Strings == <<".", "..", "a", "b", "d">>
str_rank(s) == CHOOSE i \in DOMAIN Strings : Strings[i] = s

\* (name, oid, type_) tuples compare by name first; the names of one
\* directory are distinct, so the name decides
entry_lt(e1, e2) == str_rank(e1[1]) < str_rank(e2[1])

RECURSIVE sorted(_)
\* sorted(entries)
sorted(entries) ==
  IF entries = <<>> THEN <<>>
  ELSE LET i == CHOOSE i \in DOMAIN entries :
                  \A j \in DOMAIN entries : ~entry_lt(entries[j], entries[i])
       IN <<entries[i]>> \o
          sorted(SubSeq(entries, 1, i - 1) \o
                 SubSeq(entries, i + 1, Len(entries)))

\* a value of the nested dict write_tree builds: a blob id or a dict
Leaf(oid) == [is_dict |-> FALSE, v |-> oid]
Dir(d) == [is_dict |-> TRUE, v |-> d]

RECURSIVE set_path(_, _, _)
\* base.write_tree, lines 39-46: walk dirpath with setdefault, then
\* current[filename] = oid
set_path(current, path, oid) ==
  IF Len(path) = 1 THEN dict_set(current, path[1], Leaf(oid))
  ELSE LET sub == IF dict_has(current, path[1])
                    THEN dict_get(current, path[1]).v
                    ELSE <<>>
       IN dict_set(current, path[1], Dir(set_path(sub, Tail(path), oid)))

RECURSIVE index_as_tree(_, _)
\* base.write_tree, lines 36-46: the index as a tree of dicts
index_as_tree(idx, tree) ==
  IF idx = <<>> THEN tree
  ELSE index_as_tree(Tail(idx), set_path(tree, idx[1][1], idx[1][2]))

RECURSIVE write_tree_recursive(_, _)
RECURSIVE write_tree_items(_, _, _)
\* base.write_tree.write_tree_recursive, lines 51-58: the loop over the
\* items of tree_dict, collecting (name, oid, type_)
write_tree_items(store, items, entries) ==
  IF items = <<>> THEN [store |-> store, entries |-> entries]
  ELSE LET name == items[1][1]
           value == items[1][2]
       IN IF value.is_dict
            THEN LET r == write_tree_recursive(store, value.v)
                 IN write_tree_items(r.store, Tail(items),
                                     Append(entries, <<name, r.oid, "tree">>))
            ELSE write_tree_items(store, Tail(items),
                                  Append(entries, <<name, value.v, "blob">>))

\* write_tree_recursive that writes the entries in the order of the dict
write_tree_recursive_unsorted(store, tree_dict) ==
  LET r == write_tree_items(store, tree_dict, <<>>)
      s == r.entries
      tree == [i \in DOMAIN s |-> <<s[i][3], s[i][2], s[i][1]>>]
  IN hash_object(r.store, tree, "tree")

\* base.write_tree.write_tree_recursive, lines 48-63
write_tree_recursive(store, tree_dict) ==
  LET r == write_tree_items(store, tree_dict, <<>>)
      s == sorted(r.entries)
      tree == [i \in DOMAIN s |-> <<s[i][3], s[i][2], s[i][1]>>]
  IN hash_object(r.store, tree, "tree")

\* base.write_tree: the store afterwards and the id of the root tree
write_tree(store, idx) ==
  write_tree_recursive(store, index_as_tree(idx, <<>>))

RECURSIVE get_tree(_, _, _)
RECURSIVE get_tree_entries(_, _, _, _)
\* base.get_tree, lines 98-107: the loop over the entries of one tree
get_tree_entries(store, entries, base_path, result) ==
  IF entries = <<>> THEN [ok |-> TRUE, tree |-> result]
  ELSE LET type_ == entries[1][1]
           oid == entries[1][2]
           name == entries[1][3]
           path == base_path \o <<name>>
       IN IF name \in {"..", "."}
            THEN [ok |-> FALSE, err |-> "MalformedTree"]
          ELSE IF type_ = "blob"
            THEN get_tree_entries(store, Tail(entries), base_path,
                                  dict_set(result, path, oid))
          ELSE IF type_ = "tree"
            THEN LET sub == get_tree(store, oid, path)
                 IN IF ~sub.ok THEN sub
                    ELSE get_tree_entries(store, Tail(entries), base_path,
                                          dict_update(result, sub.tree))
          ELSE [ok |-> FALSE, err |-> "MalformedTree"]

\* base.get_tree with base._iter_tree_entries: the tree as a dict
\* path -> oid, or the failure of reading it
get_tree(store, oid, base_path) ==
  IF oid = None THEN [ok |-> TRUE, tree |-> <<>>]
  ELSE LET o == get_object(store, oid, "tree")
       IN IF ~o.ok THEN o
          ELSE get_tree_entries(store, o.data, base_path, <<>>)

(* ---------------------- base.py: the commit graph --------------------- *)
\* base.get_commit, line 405: what a "parent" line does to parents
on_parent(parents, value) == <<>>

RECURSIVE commit_header(_, _, _)
\* base.get_commit, lines 400-407: the header lines up to the empty line
commit_header(lines, tree, parents) ==
  IF lines = <<>> \/ lines[1] = <<>>
    THEN [ok |-> TRUE, tree |-> tree, parents |-> parents,
          rest |-> IF lines = <<>> THEN <<>> ELSE Tail(lines)]
  ELSE LET key == lines[1][1]
           value == lines[1][2]
       IN IF key = "tree" THEN commit_header(Tail(lines), value, parents)
          ELSE IF key = "parent"
            THEN commit_header(Tail(lines), tree, on_parent(parents, value))
          ELSE [ok |-> FALSE, err |-> "UnknownCommitField"]

\* base.get_commit: Commit(tree, parents, message), or the failure
get_commit(store, oid) ==
  LET o == get_object(store, oid, "commit")
  IN IF ~o.ok THEN o
     ELSE LET h == commit_header(o.data, None, <<>>)
          IN IF ~h.ok THEN h
             ELSE [ok |-> TRUE, tree |-> h.tree, parents |-> h.parents,
                   message |-> h.rest]

RECURSIVE iter_commits_and_parents(_, _, _, _)
\* base.iter_commits_and_parents: the ids yielded, in order.  oids is the
\* deque, out the ids yielded so far.  ok is FALSE when get_commit fails;
\* out then still holds what was yielded before the failure (the id is
\* yielded before its commit is read).
iter_commits_and_parents(store, oids, visited, out) ==
  IF oids = <<>> THEN [ok |-> TRUE, out |-> out]
  ELSE LET oid == Head(oids)
           rest == Tail(oids)
       IN IF oid = None \/ oid \in visited
            THEN iter_commits_and_parents(store, rest, visited, out)
          ELSE LET c == get_commit(store, oid)
               IN IF ~c.ok
                    THEN [ok |-> FALSE, err |-> c.err, out |-> Append(out, oid)]
                  ELSE iter_commits_and_parents(
                         store,
                         slice(c.parents, 1, 1) \o rest
                           \o slice(c.parents, 2, Len(c.parents)),
                         visited \cup {oid},
                         Append(out, oid))

\* base.get_merge_base: the first id yielded from oid2 that is among the
\* ids yielded from oid1; None when there is none
get_merge_base(store, oid1, oid2) ==
  LET it1 == iter_commits_and_parents(store, <<oid1>>, {}, <<>>)
      it2 == iter_commits_and_parents(store, <<oid2>>, {}, <<>>)
      parents1 == Range(it1.out)
      hits == {i \in DOMAIN it2.out : it2.out[i] \in parents1}
  IN IF ~it1.ok THEN [ok |-> FALSE, err |-> it1.err]
     ELSE IF hits # {}
       THEN [ok |-> TRUE,
             value |-> it2.out[CHOOSE i \in hits : \A j \in hits : i <= j]]
     ELSE IF ~it2.ok THEN [ok |-> FALSE, err |-> it2.err]
     ELSE [ok |-> TRUE, value |-> None]

(* ------------------ base.py: iter_objects_in_commits ------------------ *)
\* What the generator does, in order: <<"yield", oid>> hands oid to the
\* caller, <<"read", oid>> reads the object oid from the store.
Yield(oid) == <<"yield", oid>>
Read(oid) == <<"read", oid>>

RECURSIVE iter_objects_in_tree(_, _, _, _)
RECURSIVE iter_objects_in_entries(_, _, _, _)
\* iter_objects_in_entries that does not ask whether the id was visited
iter_objects_in_entries_revisit(store, entries, visited, events) ==
  IF entries = <<>>
    THEN [ok |-> TRUE, visited |-> visited, events |-> events]
  ELSE LET type_ == entries[1][1]
           oid == entries[1][2]
       IN IF type_ = "tree"
            THEN LET sub == iter_objects_in_tree(store, oid, visited, events)
                 IN IF ~sub.ok THEN sub
                    ELSE iter_objects_in_entries(store, Tail(entries),
                                                 sub.visited, sub.events)
          ELSE iter_objects_in_entries(store, Tail(entries),
                                       visited \cup {oid},
                                       Append(events, Yield(oid)))

\* base.iter_objects_in_commits.iter_objects_in_tree, lines 440-446: the
\* loop over the entries of one tree
iter_objects_in_entries(store, entries, visited, events) ==
  IF entries = <<>>
    THEN [ok |-> TRUE, visited |-> visited, events |-> events]
  ELSE LET type_ == entries[1][1]
           oid == entries[1][2]
       IN IF oid \in visited
            THEN iter_objects_in_entries(store, Tail(entries), visited, events)
          ELSE IF type_ = "tree"
            THEN LET sub == iter_objects_in_tree(store, oid, visited, events)
                 IN IF ~sub.ok THEN sub
                    ELSE iter_objects_in_entries(store, Tail(entries),
                                                 sub.visited, sub.events)
          ELSE iter_objects_in_entries(store, Tail(entries),
                                       visited \cup {oid},
                                       Append(events, Yield(oid)))

\* iter_objects_in_tree that reads the tree before it yields its id
iter_objects_in_tree_read_first(store, oid, visited, events) ==
  LET o == get_object(store, oid, "tree")
  IN IF oid = None
       THEN [ok |-> TRUE, visited |-> visited \cup {oid},
             events |-> Append(events, Yield(oid))]
     ELSE IF ~o.ok
       THEN [ok |-> FALSE, err |-> o.err, visited |-> visited \cup {oid},
             events |-> Append(events, Read(oid))]
     ELSE iter_objects_in_entries(store, o.data, visited \cup {oid},
                                  events \o <<Read(oid), Yield(oid)>>)

\* base.iter_objects_in_commits.iter_objects_in_tree, lines 437-446, with
\* base._iter_tree_entries
iter_objects_in_tree(store, oid, visited, events) ==
  LET o == get_object(store, oid, "tree")
  IN IF oid = None
       THEN [ok |-> TRUE, visited |-> visited \cup {oid},
             events |-> Append(events, Yield(oid))]
     ELSE IF ~o.ok
       THEN [ok |-> FALSE, err |-> o.err, visited |-> visited \cup {oid},
             events |-> events \o <<Yield(oid), Read(oid)>>]
     ELSE iter_objects_in_entries(store, o.data, visited \cup {oid},
                                  events \o <<Yield(oid), Read(oid)>>)

RECURSIVE iter_objects_of_commits(_, _, _, _)
\* base.iter_objects_in_commits, lines 448-452: the loop over the commits
\* iter_commits_and_parents yields.  That generator reads the commit it
\* has yielded (line 424) when it is asked for the next one.
iter_objects_of_commits(store, commits, visited, events) ==
  IF commits = <<>>
    THEN [ok |-> TRUE, visited |-> visited, events |-> events]
  ELSE LET oid == commits[1]
           c == get_commit(store, oid)
           ev == events \o <<Yield(oid), Read(oid)>>
           t == IF c.ok /\ c.tree \notin visited
                  THEN iter_objects_in_tree(store, c.tree, visited, ev)
                  ELSE [ok |-> TRUE, visited |-> visited, events |-> ev]
       IN IF ~c.ok
            THEN [ok |-> FALSE, err |-> c.err, visited |-> visited,
                  events |-> ev]
          ELSE IF ~t.ok THEN t
          ELSE iter_objects_of_commits(store, Tail(commits), t.visited,
                                       Append(t.events, Read(oid)))

\* base.iter_objects_in_commits: what it yields and reads, in order
iter_objects_in_commits(store, oids) ==
  iter_objects_of_commits(
    store, iter_commits_and_parents(store, oids, {}, <<>>).out, {}, <<>>)

(* ------------------- diff.py: the three-way tree merge ---------------- *)
\* the blob id at path in a tree dict, None when the path is absent
tree_at(t, path) == IF dict_has(t, path) THEN dict_get(t, path) ELSE None

\* the content of the blob oid, <<>> for an absent one
blob_lines(store, oid) ==
  IF oid = None THEN <<>> ELSE store[oid].data

\* the text merge of two conflicting versions: both, between markers
merge_blobs(store, o_base, o_HEAD, o_other) ==
  <<"<<<<<<<">> \o blob_lines(store, o_HEAD) \o <<"=======">>
     \o blob_lines(store, o_other) \o <<">>>>>>>">>

RECURSIVE merge_paths(_, _, _, _, _, _)
\* the merge of the paths still to do, in order, into tree
merge_paths(store, paths, t_base, t_HEAD, t_other, tree) ==
  IF paths = <<>> THEN [store |-> store, tree |-> tree]
  ELSE LET path == paths[1]
           b == tree_at(t_base, path)
           h == tree_at(t_HEAD, path)
           o == tree_at(t_other, path)
           take == IF h = o THEN h
                   ELSE IF h = b THEN o
                   ELSE IF o = b THEN h
                   ELSE IF h = None THEN o
                   ELSE IF o = None THEN h
                   ELSE None
           m == IF h # o /\ h # b /\ o # b /\ h # None /\ o # None
                  THEN hash_object(store, merge_blobs(store, b, h, o), "blob")
                  ELSE [store |-> store, oid |-> take]
       IN merge_paths(m.store, Tail(paths), t_base, t_HEAD, t_other,
                      IF m.oid = None THEN tree
                      ELSE dict_set(tree, path, m.oid))

RECURSIVE union_keys(_, _)
\* the distinct paths of the trees, in order of first appearance
union_keys(items, seen) ==
  IF items = <<>> THEN seen
  ELSE union_keys(Tail(items),
                  IF items[1][1] \in Range(seen) THEN seen
                  ELSE Append(seen, items[1][1]))

\* diff.merge_trees: the merged dict path -> oid and the store afterwards
merge_trees(store, t_base, t_HEAD, t_other) ==
  merge_paths(store, union_keys(t_base \o t_HEAD \o t_other, <<>>),
              t_base, t_HEAD, t_other, <<>>)

(* ------------------ base.py: index and working directory -------------- *)
\* The working directory is the environment of the repository: what add
\* reads from it is an input of add, and what _checkout_index writes to it
\* is not part of the state.

RECURSIVE checkout_index(_, _)
\* base._checkout_index, lines 205-208: read the blob of every index
\* entry to write it to its path
checkout_index(store, idx) ==
  IF idx = <<>> THEN [ok |-> TRUE]
  ELSE LET o == get_object(store, idx[1][2], "blob")
       IN IF ~o.ok THEN o ELSE checkout_index(store, Tail(idx))

\* the outcome of an operation: whether it returned normally, what it
\* returned or raised, and the stores as it leaves them
Outcome(ok, ret, store, rs, idx) ==
  [ok |-> ok, ret |-> ret, objects |-> store, refs |-> rs, index |-> idx]

\* base.read_tree, lines 161-165: the dict "index" when the body of the
\* with statement is left, normally or by an exception.  get_tree is
\* evaluated after index.clear() and before index.update().
read_tree_index(store, idx, tree_oid, update_working) ==
  LET t == get_tree(store, tree_oid, <<>>)
  IN IF ~t.ok THEN <<>> ELSE dict_update(<<>>, t.tree)

\* read_tree without index.clear()
read_tree_no_clear(store, rs, idx, tree_oid, update_working) ==
  LET t == get_tree(store, tree_oid, <<>>)
      new == IF t.ok THEN dict_update(idx, t.tree) ELSE <<>>
      co == IF update_working THEN checkout_index(store, new)
            ELSE [ok |-> TRUE]
  IN IF ~t.ok THEN Outcome(FALSE, t.err, store, rs, idx)
     ELSE IF ~co.ok THEN Outcome(FALSE, co.err, store, rs, idx)
     ELSE Outcome(TRUE, None, store, rs, new)

\* base.read_tree.  The index is written back when the body of
\* "with data.get_index()" ends normally (data.get_index, lines 171-174).
read_tree(store, rs, idx, tree_oid, update_working) ==
  LET t == get_tree(store, tree_oid, <<>>)
      new == IF t.ok THEN dict_update(<<>>, t.tree) ELSE <<>>
      co == IF update_working THEN checkout_index(store, new)
            ELSE [ok |-> TRUE]
  IN IF ~t.ok THEN Outcome(FALSE, t.err, store, rs, idx)
     ELSE IF ~co.ok THEN Outcome(FALSE, co.err, store, rs, idx)
     ELSE Outcome(TRUE, None, store, rs, new)

\* read_tree_merged that hands the HEAD tree to merge_trees as the base
read_tree_merged_swapped(store, rs, idx, t_base, t_HEAD, t_other, update_working) ==
  LET tb == get_tree(store, t_base, <<>>)
      th == get_tree(store, t_HEAD, <<>>)
      to == get_tree(store, t_other, <<>>)
      allok == tb.ok /\ th.ok /\ to.ok
      m == IF allok THEN merge_trees(store, th.tree, tb.tree, to.tree)
           ELSE [store |-> store, tree |-> <<>>]
      new == dict_update(<<>>, m.tree)
      co == IF update_working THEN checkout_index(m.store, new)
            ELSE [ok |-> TRUE]
  IN IF ~tb.ok THEN Outcome(FALSE, tb.err, store, rs, idx)
     ELSE IF ~th.ok THEN Outcome(FALSE, th.err, store, rs, idx)
     ELSE IF ~to.ok THEN Outcome(FALSE, to.err, store, rs, idx)
     ELSE IF ~co.ok THEN Outcome(FALSE, co.err, m.store, rs, idx)
     ELSE Outcome(TRUE, None, m.store, rs, new)

\* base.read_tree_merged
read_tree_merged(store, rs, idx, t_base, t_HEAD, t_other, update_working) ==
  LET tb == get_tree(store, t_base, <<>>)
      th == get_tree(store, t_HEAD, <<>>)
      to == get_tree(store, t_other, <<>>)
      allok == tb.ok /\ th.ok /\ to.ok
      m == IF allok THEN merge_trees(store, tb.tree, th.tree, to.tree)
           ELSE [store |-> store, tree |-> <<>>]
      new == dict_update(<<>>, m.tree)
      co == IF update_working THEN checkout_index(m.store, new)
            ELSE [ok |-> TRUE]
  IN IF ~tb.ok THEN Outcome(FALSE, tb.err, store, rs, idx)
     ELSE IF ~th.ok THEN Outcome(FALSE, th.err, store, rs, idx)
     ELSE IF ~to.ok THEN Outcome(FALSE, to.err, store, rs, idx)
     ELSE IF ~co.ok THEN Outcome(FALSE, co.err, m.store, rs, idx)
     ELSE Outcome(TRUE, None, m.store, rs, new)

RECURSIVE add_files(_, _, _)
\* base.add.add_file for each <<filename, content>> of files, in order
add_files(store, idx, files) ==
  IF files = <<>> THEN [store |-> store, index |-> idx]
  ELSE LET h == hash_object(store, files[1][2], "blob")
       IN add_files(h.store, dict_set(idx, files[1][1], h.oid), Tail(files))

\* base.add: files are the files the names given lead to, with their
\* contents, in the order add_file meets them
add(store, rs, idx, files) ==
  LET r == add_files(store, idx, files)
  IN Outcome(TRUE, None, r.store, rs, r.index)

(* --------------------- base.py: name resolution ----------------------- *)
\* the 40 hex digits that name the object oid
hexdigest(oid) == <<ToString(oid)>>

\* base.get_oid, lines 470-471: is name 40 hex digits
is_sha1(name) == \E oid \in 1..MaxOid : name = hexdigest(oid)

\* refs_to_try with the branch namespace before the tag namespace
refs_to_try_heads_first(name) ==
  << name,
     <<"refs">> \o name,
     <<"refs", "heads">> \o name,
     <<"refs", "tags">> \o name >>

\* base.get_oid, lines 459-464
refs_to_try(name) ==
  << name,
     <<"refs">> \o name,
     <<"refs", "tags">> \o name,
     <<"refs", "heads">> \o name >>

\* base.get_oid: the id, None, or the failure of the final assert
get_oid(rs, name0) ==
  LET name == IF name0 = <<"@">> THEN HEAD ELSE name0
      try == refs_to_try(name)
      found == {i \in DOMAIN try : truth(get_ref(rs, try[i], FALSE))}
  IN IF found # {}
       THEN [ok |-> TRUE,
             value |-> get_ref(rs, try[CHOOSE i \in found :
                                         \A j \in found : i <= j], TRUE).value]
     ELSE IF is_sha1(name)
       THEN [ok |-> TRUE,
             value |-> CHOOSE oid \in 1..MaxOid :
                         name = hexdigest(oid)]
     ELSE [ok |-> FALSE, err |-> "UnknownName"]

\* is_branch that looks in the tag namespace
is_branch_in_tags(rs, branch) ==
  get_ref(rs, <<"refs", "tags">> \o branch, TRUE).value # None

\* base.is_branch
is_branch(rs, branch) ==
  get_ref(rs, <<"refs", "heads">> \o branch, TRUE).value # None

(* ------------------- base.py: repository operations ------------------- *)
\* base.commit
commit(store, rs, idx, message) ==
  LET wt == write_tree(store, idx)
      HEADv == get_ref(rs, HEAD, TRUE).value
      MERGE_HEADv == get_ref(rs, MERGE_HEAD, TRUE).value
      text == <<<<"tree", wt.oid>>>>
              \o (IF HEADv # None THEN <<<<"parent", HEADv>>>> ELSE <<>>)
              \o (IF MERGE_HEADv # None
                    THEN <<<<"parent", MERGE_HEADv>>>> ELSE <<>>)
              \o << <<>>, <<message>> >>
      rs1 == IF MERGE_HEADv # None
               THEN delete_ref(rs, MERGE_HEAD, FALSE).refs ELSE rs
      h == hash_object(wt.store, text, "commit")
      u == update_ref(rs1, HEAD, RefValue(FALSE, h.oid), TRUE)
  IN Outcome(TRUE, h.oid, h.store, u.refs, idx)

\* base.checkout
checkout(store, rs, idx, name) ==
  LET o == get_oid(rs, name)
      c == IF o.ok THEN get_commit(store, o.value) ELSE o
      rt == IF c.ok THEN read_tree(store, rs, idx, c.tree, TRUE) ELSE c
      value == IF is_branch(rs, name)
                 THEN RefValue(TRUE, <<"refs", "heads">> \o name)
                 ELSE RefValue(FALSE, o.value)
      u == update_ref(rs, HEAD, value, FALSE)
  IN IF ~o.ok THEN Outcome(FALSE, o.err, store, rs, idx)
     ELSE IF ~c.ok THEN Outcome(FALSE, c.err, store, rs, idx)
     ELSE IF ~rt.ok THEN rt
     ELSE Outcome(u.ok, None, store, u.refs, rt.index)

\* reset that writes HEAD itself
reset_no_deref(store, rs, idx, oid) ==
  LET u == update_ref(rs, HEAD, RefValue(FALSE, oid), FALSE)
  IN Outcome(u.ok, None, store, u.refs, idx)

\* base.reset
reset(store, rs, idx, oid) ==
  LET u == update_ref(rs, HEAD, RefValue(FALSE, oid), TRUE)
  IN Outcome(u.ok, None, store, u.refs, idx)

FastForward == "Fast-forward merge, no need to commit"
PleaseCommit == "Merged in working tree, please commit"

\* base.merge; what it returns here is the message it prints
merge(store, rs, idx, other) ==
  LET HEADv == get_ref(rs, HEAD, TRUE).value
      mb == get_merge_base(store, other, HEADv)
      c_other == get_commit(store, other)
      \* the fast-forward, lines 305-310
      ff == read_tree(store, rs, idx, c_other.tree, TRUE)
      ffu == update_ref(rs, HEAD, RefValue(FALSE, other), TRUE)
      \* the true merge, lines 312-318
      mu == update_ref(rs, MERGE_HEAD, RefValue(FALSE, other), TRUE)
      c_base == get_commit(store, mb.value)
      c_HEAD == get_commit(store, HEADv)
      rm == read_tree_merged(store, mu.refs, idx,
                             c_base.tree, c_HEAD.tree, c_other.tree, TRUE)
  IN IF HEADv = None
       THEN Outcome(FALSE, "AssertionError", store, rs, idx)
     ELSE IF ~mb.ok THEN Outcome(FALSE, mb.err, store, rs, idx)
     ELSE IF ~c_other.ok THEN Outcome(FALSE, c_other.err, store, rs, idx)
     ELSE IF mb.value = HEADv
       THEN IF ~ff.ok THEN ff
            ELSE Outcome(ffu.ok, FastForward, store, ffu.refs, ff.index)
     ELSE IF ~mu.ok THEN Outcome(FALSE, mu.err, store, rs, idx)
     ELSE IF ~c_base.ok
       THEN Outcome(FALSE, c_base.err, store, mu.refs, idx)
     ELSE IF ~c_HEAD.ok
       THEN Outcome(FALSE, c_HEAD.err, store, mu.refs, idx)
     ELSE IF ~rm.ok THEN rm
     ELSE Outcome(TRUE, PleaseCommit, rm.objects, rm.refs, rm.index)

\* base.create_tag
create_tag(store, rs, idx, name, oid) ==
  LET u == update_ref(rs, <<"refs", "tags">> \o name,
                      RefValue(FALSE, oid), TRUE)
  IN Outcome(u.ok, None, store, u.refs, idx)

\* create_branch that makes the branch a symbolic ref to HEAD
create_branch_symbolic(store, rs, idx, name, oid) ==
  LET u == update_ref(rs, <<"refs", "heads">> \o name,
                      RefValue(TRUE, HEAD), TRUE)
  IN Outcome(u.ok, None, store, u.refs, idx)

\* base.create_branch
create_branch(store, rs, idx, name, oid) ==
  LET u == update_ref(rs, <<"refs", "heads">> \o name,
                      RefValue(FALSE, oid), TRUE)
  IN Outcome(u.ok, None, store, u.refs, idx)

\* base.init: an empty repository whose HEAD names refs/heads/master
init ==
  update_ref(<<>>, HEAD, RefValue(TRUE, <<"refs", "heads", "master">>), TRUE)

(* ------------------------------ inputs -------------------------------- *)
Paths == {<<"a">>, <<"d", "b">>}
Contents == {<<"x">>}
Messages == {"m1", "m2"}
BranchNames == {<<"master">>, <<"v1">>}
TagNames == {<<"v1">>}
\* what add meets: one file, or the files of the directory "." in the
\* order os.walk lists them
AddFiles ==
  {<<f>> : f \in Paths \X Contents}
  \cup {w \in (Paths \X Contents) \X (Paths \X Contents) : w[1][1] # w[2][1]}

\* what checkout and get_oid are given
Names ==
  {<<"@">>, <<"HEAD">>, <<"master">>, <<"v1">>, <<"tags", "v1">>,
   <<"heads", "v1">>, <<"refs", "heads", "master">>, <<"nosuch">>}
  \cup {hexdigest(oid) : oid \in 1..MaxOid}

\* what checkout is given: a name, or the hex digits of a stored object
CheckoutNames ==
  {<<"@">>, <<"master">>, <<"v1">>, <<"tags", "v1">>, <<"nosuch">>}
  \cup {hexdigest(oid) : oid \in DOMAIN objects}

(* --------------------------- the state machine ------------------------ *)
Init ==
  /\ steps = 0
  /\ objects = <<>>
  /\ refs = init.refs
  /\ index = <<>>
  /\ last = [op |-> "init", args |-> <<>>, ok |-> TRUE, ret |-> None,
             msg |-> ""]
  /\ merge_from = None

\* one operation: it leaves the repository as its outcome says; last.ret is
\* the value it returned, last.msg the exception it raised or, for merge,
\* the message it printed
\* base.merge, lines 300-312: merge(other) gets as far as writing
\* MERGE_HEAD (it is not a fast-forward and has not failed before)
merge_writes_MERGE_HEAD(store, rs, other) ==
  LET HEADv == get_ref(rs, HEAD, TRUE).value
      mb == get_merge_base(store, other, HEADv)
      c_other == get_commit(store, other)
  IN /\ HEADv # None
     /\ mb.ok
     /\ c_other.ok
     /\ mb.value # HEADv
     /\ update_ref(rs, MERGE_HEAD, RefValue(FALSE, other), TRUE).ok

\* what the operation makes of merge_from: a merge that writes MERGE_HEAD
\* starts on the commit HEAD leads to; without MERGE_HEAD no merge is in
\* progress
merge_from_after(op, args, r) ==
  IF op = "merge" /\ merge_writes_MERGE_HEAD(objects, refs, args[1])
    THEN get_ref(refs, HEAD, TRUE).value
  ELSE IF MERGE_HEAD \notin DOMAIN r.refs THEN None
  ELSE merge_from

Step(op, args, r) ==
  /\ steps' = steps + 1
  /\ merge_from' = merge_from_after(op, args, r)
  /\ objects' = r.objects
  /\ refs' = r.refs
  /\ index' = r.index
  /\ last' = [op |-> op, args |-> args, ok |-> r.ok,
              ret |-> IF r.ok /\ op # "merge" THEN r.ret ELSE None,
              msg |-> IF r.ok /\ op # "merge" THEN "" ELSE r.ret]

Add ==
  \E files \in AddFiles :
    /\ steps < MaxOps
    /\ Step("add", files, add(objects, refs, index, files))

Commit ==
  \E message \in Messages :
    /\ steps < MaxOps
    /\ Step("commit", <<message>>,
            commit(objects, refs, index, message))

Checkout ==
  \E name \in CheckoutNames :
    /\ steps < MaxOps
    /\ Step("checkout", <<name>>, checkout(objects, refs, index, name))

Reset ==
  \E oid \in DOMAIN objects :
    /\ steps < MaxOps
    /\ Step("reset", <<oid>>, reset(objects, refs, index, oid))

Merge ==
  \E other \in DOMAIN objects :
    /\ steps < MaxOps
    /\ Step("merge", <<other>>, merge(objects, refs, index, other))

CreateTag ==
  \E name \in TagNames, oid \in DOMAIN objects :
    /\ steps < MaxOps
    /\ Step("create_tag", <<name, oid>>,
            create_tag(objects, refs, index, name, oid))

CreateBranch ==
  \E name \in BranchNames, oid \in DOMAIN objects :
    /\ steps < MaxOps
    /\ Step("create_branch", <<name, oid>>,
            create_branch(objects, refs, index, name, oid))

Next ==
  \/ Add
  \/ Commit
  \/ Checkout
  \/ Reset
  \/ Merge
  \/ CreateTag
  \/ CreateBranch

Spec == Init /\ [][Next]_vars

(* --------------------- the ref store on its own ----------------------- *)
\* data.update_ref and data.delete_ref called directly, with symbolic and
\* direct values, on the refs of an initialised repository
RefNames ==
  {HEAD, <<"refs", "heads", "master">>, <<"refs", "heads", "v1">>}

RefValues ==
  {RefValue(TRUE, r) : r \in RefNames}
    \cup {RefValue(FALSE, oid) : oid \in {None, 1, 2}}

StepRefs(op, ref, u) ==
  /\ steps' = steps + 1
  /\ refs' = u.refs
  /\ last' = [op |-> op, args |-> <<ref>>, ok |-> u.ok, ret |-> None,
              msg |-> IF u.ok THEN "" ELSE u.err]
  /\ UNCHANGED <<objects, index, merge_from>>

UpdateRef ==
  \E ref \in RefNames, value \in RefValues, deref \in BOOLEAN :
    /\ steps < MaxOps
    /\ StepRefs("update_ref", ref, update_ref(refs, ref, value, deref))

DeleteRef ==
  \E ref \in RefNames, deref \in BOOLEAN :
    /\ steps < MaxOps
    /\ StepRefs("delete_ref", ref, delete_ref(refs, ref, deref))

NextRefs ==
  \/ UpdateRef
  \/ DeleteRef

SpecRefs == Init /\ [][NextRefs]_vars

(* ------------- the index and the object store on their own ----------- *)
\* data.hash_object, base.write_tree and base.read_tree called directly on
\* a repository in which files have been added
IndexPaths == {<<"a">>, <<"d", "a">>, <<"d", "b">>}

\* the store after add has hashed a file holding x and a file holding y
AddedBlobs ==
  hash_object(hash_object(<<>>, <<"x">>, "blob").store, <<"y">>, "blob").store

\* the indexes add can have built: paths in any insertion order, each with
\* the blob of its file
AddedIndexes ==
  {idx \in UNION {[1..n -> IndexPaths \X DOMAIN AddedBlobs] :
                    n \in 0..Cardinality(IndexPaths)} :
     \A i, j \in DOMAIN idx : i # j => idx[i][1] # idx[j][1]}

\* what hash_object is given: <<type_, data>>
HashInputs ==
  { <<"blob", <<"x">>>>,
    <<"blob", <<"z">>>>,
    <<"tree", <<>>>>,
    <<"tree", << <<"blob", 1, "a">> >> >>,
    <<"tree", << <<"blob", 1, "..">> >> >>,
    <<"commit", << <<"tree", 1>>, <<>>, <<"m1">> >> >> }

InitIndex ==
  /\ steps = 0
  /\ objects = AddedBlobs
  /\ refs = init.refs
  /\ index \in AddedIndexes
  /\ last = [op |-> "add", args |-> <<>>, ok |-> TRUE, ret |-> None,
             msg |-> ""]
  /\ merge_from = None

HashObject ==
  \E input \in HashInputs :
    /\ steps < MaxIndexOps
    /\ LET h == hash_object(objects, input[2], input[1])
       IN Step("hash_object", input,
               Outcome(TRUE, h.oid, h.store, refs, index))

WriteTree ==
  /\ steps < MaxIndexOps
  /\ LET wt == write_tree(objects, index)
     IN Step("write_tree", <<>>, Outcome(TRUE, wt.oid, wt.store, refs, index))

ReadTree ==
  \E tree_oid \in 0..(Len(objects) + 1), update_working \in BOOLEAN :
    /\ steps < MaxIndexOps
    /\ Step("read_tree", <<tree_oid, update_working>>,
            read_tree(objects, refs, index, tree_oid, update_working))

NextIndex ==
  \/ HashObject
  \/ WriteTree
  \/ ReadTree

SpecIndex == InitIndex /\ [][NextIndex]_vars

(* ------------------- the merge of trees on its own -------------------- *)
\* base.read_tree_merged called on trees that write_tree has stored.  The
\* k-th snapshot holds path a with blob x, y or z, or not at all, and path
\* b with blob y or not at all.
MergeMaps ==
  [k \in 1..8 |->
     (IF (k - 1) % 4 # 0 THEN << <<<<"a">>, (k - 1) % 4>> >> ELSE <<>>)
       \o (IF k > 4 THEN << <<<<"b">>, 2>> >> ELSE <<>>)]

RECURSIVE write_trees(_, _)
\* the store after write_tree has written each index of the sequence maps
write_trees(store, maps) ==
  IF maps = <<>> THEN store
  ELSE write_trees(write_tree(store, maps[1]).store, Tail(maps))

\* the store holding the blobs x, y, z (ids 1, 2, 3) and the snapshots
SnapshotStore ==
  write_trees(hash_object(AddedBlobs, <<"z">>, "blob").store, MergeMaps)

InitMerge ==
  /\ steps = 0
  /\ objects = SnapshotStore
  /\ refs = init.refs
  /\ index = <<>>
  /\ last = [op |-> "write_tree", args |-> <<>>, ok |-> TRUE, ret |-> None,
             msg |-> ""]
  /\ merge_from = None

TreeIds == {i \in DOMAIN objects : objects[i].type_ = "tree"}

ReadTreeMerged ==
  \E t_base \in TreeIds, t_HEAD \in TreeIds, t_other \in TreeIds,
     update_working \in BOOLEAN :
    /\ steps < MaxMergeOps
    /\ Step("read_tree_merged", <<t_base, t_HEAD, t_other, update_working>>,
            read_tree_merged(objects, refs, index, t_base, t_HEAD, t_other,
                             update_working))

NextMerge == ReadTreeMerged

SpecMerge == InitMerge /\ [][NextMerge]_vars

(* ------------------------- reading a state ---------------------------- *)
CommitIds == {i \in DOMAIN objects : objects[i].type_ = "commit"}

RECURSIVE parent_lines(_)
\* the ids of the "parent" lines of a commit text, in order
parent_lines(lines) ==
  IF lines = <<>> \/ lines[1] = <<>> THEN <<>>
  ELSE (IF lines[1][1] = "parent" THEN <<lines[1][2]>> ELSE <<>>)
       \o parent_lines(Tail(lines))

\* the parents base.commit recorded in the stored commit oid
stored_parents(store, oid) == parent_lines(store[oid].data)

\* the value HEAD resolves to
HEADvalue(rs) == get_ref(rs, HEAD, TRUE).value

\* the step just taken was the operation op
did(op) == steps' = steps + 1 /\ last'.op = op

(* ------------------------------- C1 ----------------------------------- *)
RECURSIVE chain(_, _)
\* the commits of the parent chain of oid: oid, its only parent, and so on
chain(store, oid) ==
  LET ps == stored_parents(store, oid)
  IN IF Len(ps) = 1 /\ ps[1] \in DOMAIN store
          /\ store[ps[1]].type_ = "commit"
       THEN {oid} \cup chain(store, ps[1])
       ELSE {oid}

\* C1: for any two commits on one parent chain (each commit's parent is
\* the previous one), get_merge_base of the younger and the older returns
\* the older: on A <- B <- C, get_merge_base(C, A) is A.
C1_MergeBaseOnChain ==
  \A c \in CommitIds : \A a \in chain(objects, c) :
    get_merge_base(objects, c, a) = [ok |-> TRUE, value |-> a]

(* ------------------------------- C4 ----------------------------------- *)
\* the parents commit is to record, from the refs before it
expected_parents(rs) ==
  LET h == HEADvalue(rs)
      m == get_ref(rs, MERGE_HEAD, TRUE).value
  IN (IF h # None THEN <<h>> ELSE <<>>) \o (IF m # None THEN <<m>> ELSE <<>>)

\* C4: commit stores a commit whose parents are none, [HEAD] or
\* [HEAD, MERGE_HEAD]; get_commit of the new commit reports exactly those
\* parents, and after a commit MERGE_HEAD is absent.
C4_CommitParents ==
  [][did("commit") =>
       /\ stored_parents(objects', last'.ret) = expected_parents(refs)
       /\ get_commit(objects', last'.ret).ok
       /\ get_commit(objects', last'.ret).parents = expected_parents(refs)
       /\ MERGE_HEAD \notin DOMAIN refs']_vars

(* ------------------------------- C8 ----------------------------------- *)
\* C8: for every name, get_oid returns a non-empty object id or fails with
\* UnknownName; it never returns an absent value.
C8_GetOidNeverEmpty ==
  \A name \in Names :
    LET r == get_oid(refs, name)
    IN r.ok => r.value # None

(* ------------------------- more state reading ------------------------- *)
\* two ref files hold the same text
same_text(t1, t2) == t1.prefix = t2.prefix /\ t1.rest = t2.rest

\* ref holds the same in rs1 and rs2, or is absent in both
ref_unchanged(rs1, rs2, ref) ==
  /\ ref \in DOMAIN rs1 <=> ref \in DOMAIN rs2
  /\ ref \in DOMAIN rs1 => same_text(rs1[ref], rs2[ref])

AllRefs(rs1, rs2) == DOMAIN rs1 \cup DOMAIN rs2

\* a branch or tag ref
BranchOrTag(ref) == Len(ref) >= 2 /\ ref[1] = "refs"

\* the text of a direct ref to oid
direct(oid) == [prefix |-> "", rest |-> oid]

\* the id on the "tree" line of the stored commit oid
stored_tree(store, oid) == store[oid].data[1][2]

\* the tree of the stored commit oid as a dict path -> blob id
commit_tree(store, oid) == get_tree(store, stored_tree(store, oid), <<>>).tree

RECURSIVE ancestors(_, _)
\* the commits reachable from oid through the stored parent lines
ancestors(store, oid) ==
  {oid} \cup UNION {ancestors(store, p) :
                      p \in {q \in Range(stored_parents(store, oid)) :
                               /\ q \in DOMAIN store
                               /\ store[q].type_ = "commit"}}

(* ------------------------------- C2 ----------------------------------- *)
\* merge(T) found merge_base(T, HEAD) == HEAD, and returned
fast_forwarded ==
  /\ did("merge")
  /\ last'.ok
  /\ LET mb == get_merge_base(objects, last'.args[1], HEADvalue(refs))
     IN mb.ok /\ mb.value = HEADvalue(refs)

\* what C2 says of HEAD, the index and the object store after merge(T)
fast_forward_result(T) ==
  /\ HEADvalue(refs') = T
  /\ dict_eq(index', commit_tree(objects, T))
  /\ objects' = objects

diverged(store, T, H) ==
  /\ T \in DOMAIN store /\ store[T].type_ = "commit"
  /\ H \in DOMAIN store /\ store[H].type_ = "commit"
  /\ T \notin ancestors(store, H)
  /\ H \notin ancestors(store, T)
  /\ ancestors(store, T) \cap ancestors(store, H) # {}

C5_CommitMovesBranch ==
  [][(did("commit") /\ refs[HEAD].prefix = "ref:") =>
       LET branch == refs[HEAD].rest
       IN /\ branch \in DOMAIN refs'
          /\ same_text(refs'[branch], direct(last'.ret))
          /\ ref_unchanged(refs, refs', HEAD)
          /\ \A r \in AllRefs(refs, refs') \ {branch} :
               BranchOrTag(r) => ref_unchanged(refs, refs', r)]_vars

\* a commit was made on the branch HEAD names while another branch and a
\* tag exist
C5_Witness ==
  /\ last.op = "commit"
  /\ refs[HEAD].prefix = "ref:"
  /\ refs[HEAD].rest = <<"refs", "heads", "master">>
  /\ refs[<<"refs", "heads", "master">>].rest = last.ret
  /\ <<"refs", "heads", "v1">> \in DOMAIN refs
  /\ <<"refs", "tags", "v1">> \in DOMAIN refs

(* ------------------------------- C6 ----------------------------------- *)
\* ref is a file holding "ref: ..."
is_symbolic(rs, ref) == ref \in DOMAIN rs /\ rs[ref].prefix = "ref:"

\* the chains of symbolic refs that end: every ref but the last is
\* symbolic and names the next, the last is not symbolic (it holds an id,
\* or it has no value)
Chains(rs) ==
  {p \in UNION {[1..n -> RefNames] : n \in 1..Cardinality(RefNames)} :
     /\ \A i \in 1..(Len(p) - 1) :
          is_symbolic(rs, p[i]) /\ rs[p[i]].rest = p[i + 1]
     /\ ~is_symbolic(rs, p[Len(p)])}

\* two RefValues are the same
same_value(v1, v2) == v1.symbolic = v2.symbolic /\ v1.value = v2.value

\* the value of a ref that is not symbolic: its id, or None without a file
plain_value(rs, ref) == IF ref \in DOMAIN rs THEN rs[ref].rest ELSE None

\* C6: with HEAD symbolic to refs/heads/master and refs/heads/master set
\* directly to X, get_ref(HEAD, deref) is the non-symbolic X and
\* get_ref(HEAD, no deref) is the symbolic refs/heads/master; in general
\* get_ref with deref follows a chain of symbolic refs to the first
\* non-symbolic or valueless ref and returns that ref's value, and without
\* deref it returns what the ref itself holds.
C6_GetRefFollowsChain ==
  /\ \A X \in {1, 2} :
       (/\ HEAD \in DOMAIN refs
        /\ same_text(refs[HEAD], [prefix |-> "ref:",
                                  rest |-> <<"refs", "heads", "master">>])
        /\ <<"refs", "heads", "master">> \in DOMAIN refs
        /\ same_text(refs[<<"refs", "heads", "master">>], direct(X)))
       => /\ same_value(get_ref(refs, HEAD, TRUE), RefValue(FALSE, X))
          /\ same_value(get_ref(refs, HEAD, FALSE),
                        RefValue(TRUE, <<"refs", "heads", "master">>))
  /\ \A p \in Chains(refs) :
       /\ same_value(get_ref(refs, p[1], TRUE),
                     RefValue(FALSE, plain_value(refs, p[Len(p)])))
       /\ is_symbolic(refs, p[1])
            => same_value(get_ref(refs, p[1], FALSE),
                          RefValue(TRUE, refs[p[1]].rest))

\* HEAD names refs/heads/master, which names refs/heads/v1, which holds an
\* id
C6_Witness ==
  /\ <<HEAD, <<"refs", "heads", "master">>, <<"refs", "heads", "v1">> >>
       \in Chains(refs)
  /\ <<"refs", "heads", "v1">> \in DOMAIN refs
  /\ refs[<<"refs", "heads", "v1">>].rest = 1
  /\ same_value(get_ref(refs, HEAD, TRUE), RefValue(FALSE, 1))

(* ------------------------------- C7 ----------------------------------- *)
\* the i-th candidate ref of name
candidate(name, i) ==
  LET n == IF name = <<"@">> THEN <<"HEAD">> ELSE name
  IN CASE i = 1 -> n
       [] i = 2 -> <<"refs">> \o n
       [] i = 3 -> <<"refs", "tags">> \o n
       [] i = 4 -> <<"refs", "heads">> \o n

\* the ref file exists (it then holds a non-empty text)
has_value(rs, ref) == ref \in DOMAIN rs

\* C7: get_oid(name) returns the resolved value of the first of name,
\* refs/name, refs/tags/name, refs/heads/name that has a value; when
\* refs/tags/v1 and refs/heads/v1 both exist, get_oid(v1) is the tag's.
C7_GetOidPrecedence ==
  /\ \A name \in Names : \A i \in 1..4 :
       (/\ has_value(refs, candidate(name, i))
        /\ \A j \in 1..(i - 1) : ~has_value(refs, candidate(name, j)))
       => /\ get_oid(refs, name).ok
          /\ get_oid(refs, name).value
               = get_ref(refs, candidate(name, i), TRUE).value
  /\ (/\ <<"refs", "tags", "v1">> \in DOMAIN refs
      /\ <<"refs", "heads", "v1">> \in DOMAIN refs)
     => get_oid(refs, <<"v1">>).value = refs[<<"refs", "tags", "v1">>].rest

\* a tag and a branch of the same name with different targets
C7_Witness ==
  /\ <<"refs", "tags", "v1">> \in DOMAIN refs
  /\ <<"refs", "heads", "v1">> \in DOMAIN refs
  /\ refs[<<"refs", "tags", "v1">>].rest # refs[<<"refs", "heads", "v1">>].rest

(* ------------------------------- C9 ----------------------------------- *)
\* C9: after a successful checkout(name) the index equals the tree of the
\* commit get_oid(name); HEAD itself is symbolic to refs/heads/name if that
\* ref exists and else direct with the commit id; no branch or tag ref is
\* modified.
C9_Checkout ==
  [][(did("checkout") /\ last'.ok) =>
       LET name == last'.args[1]
           oid == get_oid(refs, name).value
           branch == <<"refs", "heads">> \o name
       IN /\ dict_eq(index', commit_tree(objects, oid))
          /\ IF branch \in DOMAIN refs
               THEN same_text(refs'[HEAD], [prefix |-> "ref:", rest |-> branch])
               ELSE same_text(refs'[HEAD], direct(oid))
          /\ \A r \in AllRefs(refs, refs') :
               BranchOrTag(r) => ref_unchanged(refs, refs', r)]_vars

\* a branch was checked out: HEAD names it and the index holds its tree
C9_Witness ==
  /\ last.op = "checkout" /\ last.ok /\ last.args = << <<"v1">> >>
  /\ same_text(refs[HEAD],
               [prefix |-> "ref:", rest |-> <<"refs", "heads", "v1">>])
  /\ index # <<>>

(* ------------------------------- C10 ---------------------------------- *)
\* C10, as claimed: after reset(id) HEAD itself is a direct reference to
\* id; the index, the object store and every branch and tag ref are
\* unchanged.
C10_ResetDetachesHead ==
  [][did("reset") =>
       /\ same_text(refs'[HEAD], direct(last'.args[1]))
       /\ index' = index
       /\ objects' = objects
       /\ \A r \in AllRefs(refs, refs') :
            BranchOrTag(r) => ref_unchanged(refs, refs', r)]_vars

\* the ref update_ref('HEAD', ...) writes: the branch HEAD names, or HEAD
head_target(rs) ==
  IF rs[HEAD].prefix = "ref:" THEN rs[HEAD].rest ELSE HEAD

\* C10, amended: after reset(id) the ref HEAD leads to (the branch HEAD
\* names when HEAD is symbolic, HEAD itself when it is not) is a direct
\* reference to id, so HEAD resolves to id; every other ref, HEAD itself
\* when symbolic, the index and the object store are unchanged.
C10_Reset ==
  [][did("reset") =>
       /\ head_target(refs) \in DOMAIN refs'
       /\ same_text(refs'[head_target(refs)], direct(last'.args[1]))
       /\ HEADvalue(refs') = last'.args[1]
       /\ index' = index
       /\ objects' = objects
       /\ \A r \in AllRefs(refs, refs') \ {head_target(refs)} :
            ref_unchanged(refs, refs', r)]_vars

\* reset has moved the branch HEAD names, and HEAD still names it
C10_Witness ==
  /\ last.op = "reset"
  /\ refs[HEAD].prefix = "ref:"
  /\ refs[HEAD].rest \in DOMAIN refs
  /\ refs[refs[HEAD].rest].rest = last.args[1]
  /\ index # <<>>

(* ------------------------------- C11 ---------------------------------- *)
\* the ids under which the store holds the bytes of obj
ids_of(store, obj) == {i \in DOMAIN store : same_bytes(store[i], obj)}

\* C11: hash_object(content, kind) returns an id under which the store
\* then holds exactly kind || 0x00 || content, and get_object(id, kind)
\* returns content; the bytes are stored under one id only, the id is the
\* one the same (kind, content) had before, and a second call returns the
\* same id and leaves the store as it is.
C11_HashObjectIdempotent ==
  [][did("hash_object") =>
       LET kind == last'.args[1]
           content == last'.args[2]
           id == last'.ret
           again == hash_object(objects', content, kind)
       IN /\ id \in DOMAIN objects'
          /\ same_bytes(objects'[id], Object(kind, content))
          /\ ids_of(objects', Object(kind, content)) = {id}
          /\ ids_of(objects, Object(kind, content)) \subseteq {id}
          /\ get_object(objects', id, kind).ok
          /\ get_object(objects', id, kind).data = content
          /\ again.oid = id
          /\ again.store = objects'
          /\ \A i \in DOMAIN objects : same_bytes(objects'[i], objects[i])]_vars

\* a content was hashed that the store already held
C11_Witness ==
  /\ last.op = "hash_object"
  /\ last.args[1] = "blob" /\ last.args[2] = <<"x">>
  /\ last.ret = 1
  /\ Len(objects) = Len(AddedBlobs)

(* ------------------------------- C12 ---------------------------------- *)
\* the indexes that hold the items of idx, in every insertion order
reordered(idx) ==
  {p \in [DOMAIN idx -> Range(idx)] : Range(p) = Range(idx)}

\* C12: for the index M that add has built (valid paths, none a directory
\* prefix of another), get_tree of the tree write_tree returns is M, and
\* write_tree returns the same root id for every insertion order of M
\* (an id is the same when it names the same bytes: the trees written from
\* the same store are compared with the ids they are written under).
C12_TreeRoundTrip ==
  [][did("write_tree") =>
       LET root == last'.ret
           t == get_tree(objects', root, <<>>)
       IN /\ t.ok
          /\ Len(t.tree) = Len(index)
          /\ dict_eq(t.tree, index)
          /\ \A p \in reordered(index) :
               /\ write_tree(objects, p).oid = root
               /\ write_tree(objects, p).store = objects']_vars

\* write_tree has written an index of three paths, one at the root and two
\* in a directory, inserted in an order that is not the sorted one
C12_Witness ==
  /\ last.op = "write_tree"
  /\ Len(index) = 3
  /\ index[1][1] = <<"d", "b">>
  /\ index[2][1] = <<"a">>
  /\ dict_eq(get_tree(objects, last.ret, <<>>).tree, index)

(* ------------------------------- C13 ---------------------------------- *)
\* the id of the stored tree whose flat form is the dict m
tree_id(store, m) ==
  CHOOSE i \in DOMAIN store :
    /\ store[i].type_ = "tree"
    /\ get_tree(store, i, <<>>).ok
    /\ dict_eq(get_tree(store, i, <<>>).tree, m)

\* C13: after read_tree_merged(base, head, other) the index holds, for
\* every path of the three trees with blob ids b, h, o (None when absent):
\* h when h = o; else o when h = b (no entry when o is None); else h when
\* o = b; and it holds no other path.  Base {a: 1}, head {a: 1, b: 2},
\* other {a: 3} give {a: 3, b: 2}.
C13_ThreeWayMerge ==
  [][(did("read_tree_merged") /\ last'.ok) =>
       \A t_base \in {get_tree(objects, last'.args[1], <<>>).tree} :
       \A t_HEAD \in {get_tree(objects, last'.args[2], <<>>).tree} :
       \A t_other \in {get_tree(objects, last'.args[3], <<>>).tree} :
         LET paths == dict_keys(t_base) \cup dict_keys(t_HEAD)
                        \cup dict_keys(t_other)
         IN /\ dict_keys(index') \subseteq paths
            /\ \A i, j \in DOMAIN index' :
                 i # j => index'[i][1] # index'[j][1]
            /\ \A path \in paths :
                 LET b == tree_at(t_base, path)
                     h == tree_at(t_HEAD, path)
                     o == tree_at(t_other, path)
                     merged == tree_at(index', path)
                 IN /\ h = o => merged = h
                    /\ (h # o /\ h = b) => merged = o
                    /\ (h # o /\ h # b /\ o = b) => merged = h
            /\ (/\ dict_eq(t_base, << <<<<"a">>, 1>> >>)
                /\ dict_eq(t_HEAD, << <<<<"a">>, 1>>, <<<<"b">>, 2>> >>)
                /\ dict_eq(t_other, << <<<<"a">>, 3>> >>))
               => dict_eq(index', << <<<<"a">>, 3>>, <<<<"b">>, 2>> >>)]_vars

\* base {a: 1}, head {a: 1, b: 2} and other {a: 3} have been merged
C13_Witness ==
  /\ last.op = "read_tree_merged" /\ last.ok
  /\ last.args[1] = tree_id(objects, << <<<<"a">>, 1>> >>)
  /\ last.args[2] = tree_id(objects, << <<<<"a">>, 1>>, <<<<"b">>, 2>> >>)
  /\ last.args[3] = tree_id(objects, << <<<<"a">>, 3>> >>)
  /\ dict_eq(index, << <<<<"a">>, 3>>, <<<<"b">>, 2>> >>)

(* ------------------------------- C14 ---------------------------------- *)
\* C14: an operation that opens the index stores the index as it is in
\* memory when the operation ends, also when it fails: after read_tree,
\* failed or not, the stored index is the in-memory index at that moment.
C14_IndexPersisted ==
  [][did("read_tree") =>
       index' = read_tree_index(objects, index, last'.args[1],
                                last'.args[2])]_vars

(* ------------------------------- C15 ---------------------------------- *)
\* the seeds iter_commits_and_parents is given: one or two stored commits
Seeds ==
  {<<c>> : c \in CommitIds} \cup (CommitIds \X CommitIds)

\* s holds no element twice
no_duplicates(s) == \A i, j \in DOMAIN s : i # j => s[i] # s[j]

\* C15: iter_commits_and_parents(seeds) ends and yields exactly the
\* commits reachable from the seeds through the parent lines of the stored
\* commits, each once.
C15_IterCommitsReachable ==
  \A seeds \in Seeds :
    LET it == iter_commits_and_parents(objects, seeds, {}, <<>>)
    IN /\ it.ok
       /\ no_duplicates(it.out)
       /\ Range(it.out) = UNION {ancestors(objects, c) : c \in Range(seeds)}

(* ------------------------------- C16 ---------------------------------- *)
RECURSIVE traversal(_, _, _, _)
\* the first-parent-first order over the stored parent lines: take the
\* front of the queue, skip a commit met before, put its first parent at
\* the front and its other parents at the back
traversal(store, queue, seen, out) ==
  IF queue = <<>> THEN out
  ELSE IF Head(queue) \in seen \/ Head(queue) \notin DOMAIN store
    THEN traversal(store, Tail(queue), seen, out)
  ELSE LET ps == stored_parents(store, Head(queue))
       IN traversal(store,
                    slice(ps, 1, 1) \o Tail(queue) \o slice(ps, 2, Len(ps)),
                    seen \cup {Head(queue)},
                    Append(out, Head(queue)))

\* C16: get_merge_base(oid1, oid2) is the first commit, in the
\* first-parent-first order of oid1's ancestors, that is an ancestor of
\* oid2; it is not absent when the two commits share an ancestor.
C16_MergeBaseFirstFound ==
  \A oid1 \in CommitIds : \A oid2 \in CommitIds :
    LET order1 == traversal(objects, <<oid1>>, {}, <<>>)
        common == {i \in DOMAIN order1 : order1[i] \in ancestors(objects, oid2)}
        mb == get_merge_base(objects, oid1, oid2)
    IN common # {} =>
         /\ mb.ok
         /\ mb.value # None
         /\ mb.value = order1[CHOOSE i \in common : \A j \in common : i <= j]

(* ------------------------------- C17 ---------------------------------- *)
\* the ids a run has yielded, in order
yielded(events) ==
  LET ys == {i \in DOMAIN events : events[i][1] = "yield"}
      RECURSIVE pick(_, _)
      pick(i, out) ==
        IF i > Len(events) THEN out
        ELSE pick(i + 1, IF i \in ys THEN Append(out, events[i][2]) ELSE out)
  IN pick(1, <<>>)

RECURSIVE objects_of_tree(_, _)
\* the stored tree oid with every tree and blob below it
objects_of_tree(store, oid) ==
  {oid} \cup UNION {IF e[1] = "tree" THEN objects_of_tree(store, e[2])
                                      ELSE {e[2]} :
                      e \in Range(store[oid].data)}

\* the commit oid with every tree and blob of its snapshot
objects_of_commit(store, oid) ==
  {oid} \cup objects_of_tree(store, stored_tree(store, oid))

\* C17: iter_objects_in_commits(seeds) ends and yields, for each commit it
\* visits, the commit and every tree and blob reachable from the commit's
\* tree, and it yields no id twice
C17_IterObjectsOnce ==
  \A seeds \in Seeds :
    \A run \in {iter_objects_in_commits(objects, seeds)} :
    \A ids \in {yielded(run.events)} :
      LET commits == iter_commits_and_parents(objects, seeds, {}, <<>>).out
      IN /\ run.ok
         /\ no_duplicates(ids)
         /\ Range(ids) = UNION {objects_of_commit(objects, c) :
                                 c \in Range(commits)}

\* two commits with the same tree were given as seeds, and in that tree
\* two directories hold the same blob
C17_Witness ==
  \E c1 \in CommitIds : \E c2 \in CommitIds :
    /\ c1 # c2
    /\ stored_tree(objects, c1) = stored_tree(objects, c2)
    /\ LET t == commit_tree(objects, c1)
       IN Len(t) = 2 /\ t[1][2] = t[2][2]
    /\ Len(yielded(iter_objects_in_commits(objects, <<c1, c2>>).events)) = 5

(* ------------------------------- C18 ---------------------------------- *)
\* C18: in a run of iter_objects_in_commits every read of an object comes
\* after the yield of its id, so a consumer that starts with an empty
\* store and fetches each id when it is yielded has every object that is
\* read
C18_YieldBeforeRead ==
  \A seeds \in Seeds :
    \A ev \in {iter_objects_in_commits(objects, seeds).events} :
      \A i \in DOMAIN ev :
        ev[i][1] = "read" =>
          \E j \in 1..(i - 1) : ev[j][1] = "yield" /\ ev[j][2] = ev[i][2]

\* a run over the commit just made has read the commit and both trees of
\* its snapshot
C18_Witness ==
  /\ last.op = "commit" /\ last.ok
  /\ LET ev == iter_objects_in_commits(objects, <<last.ret>>).events
         reads == {ev[i][2] : i \in {k \in DOMAIN ev : ev[k][1] = "read"}}
     IN /\ last.ret \in reads
        /\ Cardinality({o \in reads : objects[o].type_ = "tree"}) = 2

(* ------------------------------- C19 ---------------------------------- *)
\* every ref a resolution can start from
KnownRefs == DOMAIN refs \cup {HEAD, MERGE_HEAD}

\* C19: HEAD is the only ref that is ever symbolic, and when it is, it
\* names a ref under refs/heads/ that is direct or absent; so a resolution
\* follows at most one symbolic ref and always ends.
C19_OnlyHeadSymbolic ==
  /\ \A ref \in DOMAIN refs :
       is_symbolic(refs, ref) =>
         /\ ref = HEAD
         /\ Len(refs[ref].rest) >= 3
         /\ slice(refs[ref].rest, 1, 2) = <<"refs", "heads">>
         /\ ~is_symbolic(refs, refs[ref].rest)
  /\ \A ref \in KnownRefs :
       LET r == get_ref_internal(refs, ref, TRUE, 0)
       IN /\ r.ok
          /\ ~r.value.symbolic
          /\ r.ref # ref => is_symbolic(refs, ref) /\ r.ref = refs[ref].rest

\* HEAD names the branch v1, which holds an id, beside a tag of the same
\* name
C19_Witness ==
  /\ is_symbolic(refs, HEAD)
  /\ refs[HEAD].rest = <<"refs", "heads", "v1">>
  /\ <<"refs", "heads", "v1">> \in DOMAIN refs
  /\ <<"refs", "tags", "v1">> \in DOMAIN refs

(* ------------------------------- C20 ---------------------------------- *)
\* C20: after a successful checkout(name) HEAD resolves to the commit
\* get_oid(name) gave, the one whose tree was loaded into the index
C20_CheckoutHeadResolves ==
  [][(did("checkout") /\ last'.ok) =>
       HEADvalue(refs') = get_oid(refs, last'.args[1]).value]_vars

(* ------------------------------- C21 ---------------------------------- *)
\* C21: every commit that commit() creates with two parents has as first
\* parent the commit HEAD led to when the merge that wrote MERGE_HEAD was
\* invoked, and as second parent the commit that merge merged in (the
\* value of MERGE_HEAD), whatever happened between that merge and the
\* commit.
C21_MergeCommitParents ==
  [][(did("commit") /\ Len(stored_parents(objects', last'.ret)) = 2) =>
       /\ stored_parents(objects', last'.ret)[1] = merge_from
       /\ stored_parents(objects', last'.ret)[2] = plain_value(refs, MERGE_HEAD)
    ]_vars

====
